---- MODULE Spec2Model ----
(***************************************************************************)
(* Model of mlagents/trainers/demo_loader.py: load_demonstration (path     *)
(* resolution, the per-file frame scan, the multi-file aggregation),       *)
(* make_demo_buffer (transition pairing, episode flushes) and              *)
(* demo_to_buffer (the two in sequence).                                   *)
(*                                                                         *)
(* Files are byte sequences (naturals 0..255); positions are 0-based as in *)
(* the Python code, sequences are 1-based as in TLA+.                      *)
(***************************************************************************)
EXTENDS Integers, Sequences, FiniteSets, TLC

\* ----------------------------------------------------------------- bounds
\* Largest number_steps a generated file declares.
MaxK == 2
\* Largest number of step frames a generated file holds.
MaxFrames == 2
\* Largest number of entries of a generated directory.
MaxFiles == 2
\* Longest brain_infos list handed directly to make_demo_buffer.
MaxInfos == 5
\* Largest sequence_length.
MaxSeqLen == 3
\* Largest number of visual observations of the brain parameters.
MaxVisual == 1

\* ------------------------------------------------------ program constants
\* "First 32 bytes of file dedicated to meta-data."
INITIAL_POS == 33

\* Field tags of the record messages (field number * 8 + wire type 0).
TagNumberSteps == 24
TagVectorObservationSize == 8
TagDone == 64
TagId == 80
Tags == {TagNumberSteps, TagVectorObservationSize, TagDone, TagId}

\* ------------------------------------------------------------------ names
\* A file name is a sequence of characters.
DemoExt == <<".", "d", "e", "m", "o">>
TxtExt == <<".", "t", "x", "t">>
Letters == <<"a", "b", "c", "e">>

\* str.endswith
EndsWith(name, suffix) ==
    /\ Len(name) >= Len(suffix)
    /\ SubSeq(name, Len(name) - Len(suffix) + 1, Len(name)) = suffix

\* str.rfind("."), 0-based, -1 when there is none
RFindDot(name) ==
    LET dots == {i \in 1..Len(name) : name[i] = "."}
    IN  IF dots = {} THEN -1
        ELSE (CHOOSE i \in dots : \A j \in dots : j <= i) - 1

\* pathlib.Path(name).suffix: the part from the last dot on, when that dot is
\* neither the first nor the last character of the name
PathSuffix(name) ==
    LET i == RFindDot(name)
    IN  IF 0 < i /\ i < Len(name) - 1 THEN SubSeq(name, i + 1, Len(name))
        ELSE <<>>

\* The extension test of a single-file path, written with endswith as the
\* directory filter is (a variant, not the code's).
ExtensionIsDemoAnyDot(name) == EndsWith(name, DemoExt)
\* The extension test of a single-file path: file_extension != ".demo".
ExtensionIsDemo(name) == PathSuffix(name) = DemoExt

\* The filter of a directory listing.
ListingFilter(name) == EndsWith(name, DemoExt)

\* The emptiness test that guards the "no '.demo' files" error of a directory.
NoFilesToLoad(all_files, file_paths) == all_files = <<>>

\* ------------------------------------------------------------ byte helpers
Min(a, b) == IF a < b THEN a ELSE b

\* Python's data[a:b] for 0 <= a <= b: silently cut at the end of data
Slice(data, a, b) == SubSeq(data, a + 1, Min(b, Len(data)))

RECURSIVE Pow2(_)
Pow2(n) == IF n = 0 THEN 1 ELSE 2 * Pow2(n - 1)

\* google.protobuf.internal.decoder._DecodeVarint32: little-endian base 128,
\* continuation bit in the high bit; indexing past the buffer raises
\* IndexError, a chain of ten bytes raises DecodeError; the result is masked
\* to 32 bits (the mask only matters from the fifth byte on).
RECURSIVE VarintLoop(_, _, _, _)
VarintLoop(buffer, pos, result, shift) ==
    IF pos >= Len(buffer)
    THEN [ok |-> FALSE, err |-> "IndexError", value |-> 0, pos |-> pos]
    ELSE LET b == buffer[pos + 1]
             r == result + (b % 128) * Pow2(shift)
         IN  IF b < 128
             THEN [ok |-> TRUE, err |-> "none",
                   value |-> IF shift < 28 THEN r ELSE r % Pow2(32),
                   pos |-> pos + 1]
             ELSE IF shift + 7 >= 64
             THEN [ok |-> FALSE, err |-> "DecodeError", value |-> 0, pos |-> pos + 1]
             ELSE VarintLoop(buffer, pos + 1, r, shift + 7)

DecodeVarint32(buffer, pos) == VarintLoop(buffer, pos, 0, 0)

\* The external record decoder (ParseFromString), reduced to messages of
\* one-byte varint fields: a payload is a run of (tag, value) pairs, a field
\* that is absent has its default 0, an unknown tag is skipped, of a repeated
\* field the last value stands, and a payload that ends inside a pair fails
\* to decode.
NoFields == [t \in Tags |-> 0]

ParseFields(bytes, acc) ==
    LET whole == Len(bytes) \div 2
        At(t) == {k \in 1..whole : bytes[2 * k - 1] = t}
        Last(t) == CHOOSE k \in At(t) : \A j \in At(t) : j <= k
    IN  [ok |-> Len(bytes) % 2 = 0,
         fields |-> [t \in Tags |-> IF At(t) = {} THEN acc[t]
                                   ELSE bytes[2 * Last(t)]]]

ParseFromString(bytes) == ParseFields(bytes, NoFields)

\* ------------------------------------------------------- the files on disk
\* A file is described by the number_steps its meta record declares (K), the
\* number of step frames written (n) and how the file was damaged.
Damages == {"ok", "cut1", "cut2", "dangling"}

\* Other shapes of a file: "packed" is the plain concatenation of the
\* length-prefixed frames (no padding after the meta frame), "bare" has step
\* frames of declared length 0, "longmeta" has a meta frame whose declared
\* length runs past offset 33, "wide" has step frames of 128 bytes (a length
\* prefix of two bytes).
Shapes == {"packed", "bare", "longmeta", "wide"}

FileDescs ==
    [K : 0..MaxK, n : 0..MaxFrames, damage : Damages \cup Shapes]
    \cup {[K |-> 0, n |-> 0, damage |-> "empty"]}
    \cup [K : 0..MaxK, n : {0}, damage : {"header"}]

\* What a directory holds: whole files (declared and written counts free) and
\* files of zero bytes.
DirDescs ==
    [K : 0..MaxK, n : 0..MaxFrames, damage : {"ok"}]
    \cup {[K |-> 0, n |-> 0, damage |-> "empty"]}

EmptyDesc == [K |-> 0, n |-> 0, damage |-> "empty"]

Zeros(n) == [i \in 1..n |-> 0]

\* The step record written as the k-th step frame (k = 1..n) of file number
\* i (0-based): ids are distinct over all files, the last one ends an episode.
WrittenStep(desc, i, k) == [agents |-> 10 * i + k, local_done |-> (k = desc.n)]

\* The parameter record written to file number i.
WrittenParam(i) == i + 1

MetaFrame(desc) == <<2, TagNumberSteps, desc.K>>
ParamFrame(i) == <<2, TagVectorObservationSize, WrittenParam(i)>>
StepFrame(s) == <<4, TagDone, IF s.local_done THEN 1 ELSE 0, TagId, s.agents>>

RECURSIVE StepFrames(_, _, _)
StepFrames(desc, i, k) ==
    IF k > desc.n THEN <<>>
    ELSE StepFrame(WrittenStep(desc, i, k)) \o StepFrames(desc, i, k + 1)

\* [varint len][meta], padding up to offset 33, [varint len][parameters],
\* then the step frames.
WholeFile(desc, i) ==
    MetaFrame(desc) \o Zeros(INITIAL_POS - 3) \o ParamFrame(i) \o StepFrames(desc, i, 1)

\* The n step frames of a file, each of declared length 0.
RECURSIVE BareFrames(_)
BareFrames(n) == IF n = 0 THEN <<>> ELSE <<0>> \o BareFrames(n - 1)

\* The frames of a file one after the other, nothing between them.
PackedFile(desc, i) == MetaFrame(desc) \o ParamFrame(i) \o StepFrames(desc, i, 1)

\* The varint of a length: 7 bits a byte, low bits first, the high bit set on
\* every byte but the last.
RECURSIVE EncodeVarint(_)
EncodeVarint(n) ==
    IF n < 128 THEN <<n>> ELSE <<128 + (n % 128)>> \o EncodeVarint(n \div 128)

\* A frame: the varint of the payload's length, then the payload.
Frame(payload) == EncodeVarint(Len(payload)) \o payload

\* The payload of a step frame: the record's fields, in a "wide" file followed
\* by skipped fields up to 128 bytes.
StepPayload(desc, s) ==
    IF desc.damage = "wide" THEN Tail(StepFrame(s)) \o Zeros(124) ELSE Tail(StepFrame(s))

RECURSIVE WideFrames(_, _, _)
WideFrames(desc, i, k) ==
    IF k > desc.n THEN <<>>
    ELSE Frame(StepPayload(desc, WrittenStep(desc, i, k))) \o WideFrames(desc, i, k + 1)

FileBytes(desc, i) ==
    LET whole == WholeFile(desc, i)
    IN  CASE desc.damage = "ok" -> whole
          [] desc.damage = "packed" -> PackedFile(desc, i)
          [] desc.damage = "bare" ->
                MetaFrame(desc) \o Zeros(INITIAL_POS - 3) \o ParamFrame(i) \o BareFrames(desc.n)
          [] desc.damage = "wide" ->
                MetaFrame(desc) \o Zeros(INITIAL_POS - 3) \o ParamFrame(i)
                \o WideFrames(desc, i, 1)
          [] desc.damage = "longmeta" ->
                <<INITIAL_POS + 1>> \o Tail(whole)
          [] desc.damage = "cut1" -> SubSeq(whole, 1, Len(whole) - 1)
          [] desc.damage = "cut2" -> SubSeq(whole, 1, Len(whole) - 2)
          [] desc.damage = "dangling" -> whole \o <<128>>
          [] desc.damage = "header" -> MetaFrame(desc)
          [] desc.damage = "empty" -> <<>>

\* Names a single-file path may have, and names of the i-th directory entry.
FileNames ==
    {<<"a">> \o DemoExt, <<"a">> \o TxtExt, DemoExt, <<"a", "d", "e", "m", "o">>}

DirEntries(i) ==
    [name : {<<Letters[i]>> \o DemoExt}, desc : DirDescs]
    \cup {[name |-> <<Letters[i]>> \o TxtExt, desc |-> EmptyDesc]}

RECURSIVE Listings(_)
Listings(n) ==
    IF n = 0 THEN {<<>>}
    ELSE {Append(l, e) : l \in Listings(n - 1), e \in DirEntries(n)}

Paths ==
    {[kind |-> "missing", name |-> <<"a">> \o DemoExt, entries |-> <<>>]}
    \cup {[kind |-> "file", name |-> nm, entries |-> <<[name |-> nm, desc |-> d]>>] :
            nm \in FileNames, d \in FileDescs}
    \cup {[kind |-> "dir", name |-> <<"d">>, entries |-> l] :
            l \in UNION {Listings(n) : n \in 0..MaxFiles}}

\* ------------------------------------------------------------------ state
VARIABLES
    pc,                \* where the program is
    err,               \* the exception raised, "none" while there is none
    path,              \* the file_path argument and what the file system holds there
    file_paths,        \* load_demonstration: the files to load
    fileIdx,           \* how many of file_paths the for loop has taken
    data,              \* the bytes of the file being scanned
    pos, next_pos, obs_decoded,
    stopped,           \* how the while loop of the current file ended
    brain_params, brain_param_proto, brain_infos, total_expected,
    sequence_length,   \* make_demo_buffer
    idx,               \* make_demo_buffer: the loop index
    local_buffer,      \* demo_buffer[0]: the fields being accumulated
    update_buffer,     \* demo_buffer.update_buffer: the chunks flushed so far
    pairs,             \* the (current, next) pairs the loop formed, in order
    flushes            \* what each append_update_buffer call was handed

loadVars == <<path, file_paths, fileIdx, data, pos, next_pos, obs_decoded, stopped,
              brain_param_proto, total_expected>>
buildVars == <<sequence_length, idx, local_buffer, update_buffer, pairs, flushes>>
vars == <<pc, err, path, file_paths, fileIdx, data, pos, next_pos, obs_decoded,
          stopped, brain_params, brain_param_proto, brain_infos, total_expected,
          sequence_length, idx, local_buffer, update_buffer, pairs, flushes>>

NoParams ==
    [is_none |-> TRUE, param |-> 0, vector_observation_space_size |-> 0,
     number_visual_observations |-> 0, first_agent |-> 0]

EmptyFields ==
    [done |-> <<>>, rewards |-> <<>>, vector_obs |-> <<>>, actions |-> <<>>,
     prev_action |-> <<>>, visual_obs |-> [i \in 0..(MaxVisual - 1) |-> <<>>]]

\* ------------------------------------------------------ load_demonstration
Raise(e) ==
    /\ pc' = "error"
    /\ err' = e

\* open(_file_path, "rb").read()
Read(name) ==
    LET i == CHOOSE j \in 1..Len(path.entries) : path.entries[j].name = name
    IN  FileBytes(path.entries[i].desc, i - 1)

RECURSIVE Filtered(_)
Filtered(all_files) ==
    IF all_files = <<>> THEN <<>>
    ELSE IF ListingFilter(Head(all_files)) THEN <<Head(all_files)>> \o Filtered(Tail(all_files))
    ELSE Filtered(Tail(all_files))

\* os.path.isdir(file_path)
ResolveDir ==
    /\ pc = "resolve"
    /\ path.kind = "dir"
    /\ LET all_files == [i \in 1..Len(path.entries) |-> path.entries[i].name]
           found == Filtered(all_files)
       IN  /\ file_paths' = found
           /\ IF NoFilesToLoad(all_files, found)
              THEN Raise("ValueError: no .demo files in the directory")
              ELSE pc' = "open" /\ err' = err
    /\ UNCHANGED <<path, fileIdx, data, pos, next_pos, obs_decoded, stopped,
                   brain_params, brain_param_proto, brain_infos, total_expected>>
    /\ UNCHANGED buildVars

\* os.path.isfile(file_path)
ResolveFile ==
    /\ pc = "resolve"
    /\ path.kind = "file"
    /\ file_paths' = <<path.name>>
    /\ IF ~ExtensionIsDemo(path.name)
       THEN Raise("ValueError: not a .demo file")
       ELSE pc' = "open" /\ err' = err
    /\ UNCHANGED <<path, fileIdx, data, pos, next_pos, obs_decoded, stopped,
                   brain_params, brain_param_proto, brain_infos, total_expected>>
    /\ UNCHANGED buildVars

ResolveMissing ==
    /\ pc = "resolve"
    /\ path.kind = "missing"
    /\ Raise("FileNotFoundError")
    /\ UNCHANGED <<path, file_paths, fileIdx, data, pos, next_pos, obs_decoded, stopped,
                   brain_params, brain_param_proto, brain_infos, total_expected>>
    /\ UNCHANGED buildVars

\* for _file_path in file_paths: read the file, restart the scan
OpenFile ==
    /\ pc = "open"
    /\ fileIdx < Len(file_paths)
    /\ data' = Read(file_paths[fileIdx + 1])
    /\ fileIdx' = fileIdx + 1
    /\ next_pos' = 0
    /\ pos' = 0
    /\ obs_decoded' = 0
    /\ stopped' = "none"
    /\ pc' = "scan"
    /\ UNCHANGED <<err, path, file_paths, brain_params, brain_param_proto, brain_infos,
                   total_expected>>
    /\ UNCHANGED buildVars

\* total_expected = number_steps: the total restarted by every file (a
\* variant, not the code's).
AddExpectedOverwrite(total, number_steps) == number_steps
\* total_expected += meta_data_proto.number_steps
AddExpected(total, number_steps) == total + number_steps

\* if len(brain_infos) == total_expected: break
GateReached(infos, total) == Len(infos) = total

\* BrainParameters.from_proto(brain_param_proto, agent_info)
FromProto(proto, agent_info) ==
    [is_none |-> FALSE, param |-> proto[TagVectorObservationSize],
     vector_observation_space_size |-> proto[TagVectorObservationSize],
     number_visual_observations |-> 0,
     first_agent |-> agent_info[TagId]]

\* BrainInfo.from_agent_proto(0, [agent_info], brain_params)
FromAgentProto(agent_info) ==
    [agents |-> agent_info[TagId], local_done |-> agent_info[TagDone] # 0]

\* if brain_params is None: the parameters are built once
ParamsAfterStep(params, proto, agent_info) ==
    IF params.is_none THEN FromProto(proto, agent_info) ELSE params

\* pos = INITIAL_POS after the meta frame; the variant advances by the
\* frame's declared length instead (not the code's).
MetaCursorByLength(p, length) == p + length
MetaCursor(p, length) == INITIAL_POS

\* pos += next_pos after a parameter or step frame; the variant assigns the
\* length instead (not the code's).
AdvanceCursorAssign(p, length) == length
AdvanceCursor(p, length) == p + length

\* One iteration of "while pos < len(data)".
ScanFrame ==
    /\ pc = "scan"
    /\ pos < Len(data)
    /\ LET v == DecodeVarint32(data, pos)
           msg == ParseFromString(Slice(data, v.pos, v.pos + v.value))
       IN  IF ~v.ok
           THEN /\ Raise(v.err)
                /\ UNCHANGED <<pos, next_pos, obs_decoded, stopped, brain_params,
                               brain_param_proto, brain_infos, total_expected>>
           ELSE IF ~msg.ok
           THEN /\ Raise("DecodeError")
                /\ next_pos' = v.value
                /\ pos' = v.pos
                /\ UNCHANGED <<obs_decoded, stopped, brain_params, brain_param_proto,
                               brain_infos, total_expected>>
           ELSE IF obs_decoded = 0
           THEN /\ total_expected' = AddExpected(total_expected, msg.fields[TagNumberSteps])
                /\ next_pos' = v.value
                /\ pos' = MetaCursor(v.pos, v.value)
                /\ obs_decoded' = obs_decoded + 1
                /\ UNCHANGED <<pc, err, stopped, brain_params, brain_param_proto, brain_infos>>
           ELSE IF obs_decoded = 1
           THEN /\ brain_param_proto' = msg.fields
                /\ next_pos' = v.value
                /\ pos' = AdvanceCursor(v.pos, v.value)
                /\ obs_decoded' = obs_decoded + 1
                /\ UNCHANGED <<pc, err, stopped, brain_params, brain_infos, total_expected>>
           ELSE /\ brain_params' = ParamsAfterStep(brain_params, brain_param_proto, msg.fields)
                /\ brain_infos' = Append(brain_infos, FromAgentProto(msg.fields))
                /\ next_pos' = v.value
                /\ IF GateReached(brain_infos', total_expected)
                   THEN /\ pos' = v.pos
                        /\ stopped' = "gate"
                        /\ pc' = "open"
                        /\ UNCHANGED obs_decoded
                   ELSE /\ pos' = AdvanceCursor(v.pos, v.value)
                        /\ obs_decoded' = obs_decoded + 1
                        /\ UNCHANGED <<pc, stopped>>
                /\ UNCHANGED <<err, brain_param_proto, total_expected>>
    /\ UNCHANGED <<path, file_paths, fileIdx, data>>
    /\ UNCHANGED buildVars

\* The while condition fails: the file is done.
ScanEnd ==
    /\ pc = "scan"
    /\ ~(pos < Len(data))
    /\ stopped' = "eof"
    /\ pc' = "open"
    /\ UNCHANGED <<err, path, file_paths, fileIdx, data, pos, next_pos, obs_decoded,
                   brain_params, brain_param_proto, brain_infos, total_expected>>
    /\ UNCHANGED buildVars

\* return brain_params, brain_infos, total_expected
Return ==
    /\ pc = "open"
    /\ fileIdx = Len(file_paths)
    /\ pc' = "loaded"
    /\ UNCHANGED <<err, brain_params, brain_infos>>
    /\ UNCHANGED loadVars
    /\ UNCHANGED buildVars

\* -------------------------------------------------------- make_demo_buffer
\* demo_to_buffer: make_demo_buffer(brain_infos, brain_params, sequence_length)
StartBuild ==
    /\ pc = "loaded"
    /\ \E sl \in 1..MaxSeqLen : sequence_length' = sl
    /\ idx' = 0
    /\ pc' = "build"
    /\ UNCHANGED <<err, brain_params, brain_infos, local_buffer, update_buffer, pairs, flushes>>
    /\ UNCHANGED loadVars

\* What a buffer entry holds: which field of which step record.
FieldOf(what, info) == [what |-> what, of |-> info.agents]

\* The break taken one record early (a variant, not the code's).
LoopBreakEarly(i, n) == i > n - 3
\* if idx > len(brain_infos) - 2: break
LoopBreak(i, n) == i > n - 2

\* The flush decided by the current record's flag (a variant, not the code's).
FlushOnCurrentDone(current, next) == current.local_done
\* if next_brain_info.local_done[0]
FlushCondition(current, next) == next.local_done

\* The appends of one loop iteration with the reward read from the current
\* record (a variant, not the code's).
AppendTransitionRewardOfCurrent(fields, params, current, next) ==
    [done |-> Append(fields.done, next.local_done),
     rewards |-> Append(fields.rewards, [what |-> "rewards", of |-> current.agents]),
     visual_obs |-> [i \in 0..(MaxVisual - 1) |->
                       IF i < params.number_visual_observations
                       THEN Append(fields.visual_obs[i],
                                   [what |-> "visual_observations", of |-> current.agents])
                       ELSE fields.visual_obs[i]],
     vector_obs |-> IF params.vector_observation_space_size > 0
                    THEN Append(fields.vector_obs,
                                [what |-> "vector_observations", of |-> current.agents])
                    ELSE fields.vector_obs,
     actions |-> Append(fields.actions,
                        [what |-> "previous_vector_actions", of |-> next.agents]),
     prev_action |-> Append(fields.prev_action,
                            [what |-> "previous_vector_actions", of |-> current.agents])]

\* The appends of one loop iteration.
AppendTransition(fields, params, current, next) ==
    [done |-> Append(fields.done, next.local_done),
     rewards |-> Append(fields.rewards, FieldOf("rewards", next)),
     visual_obs |-> [i \in 0..(MaxVisual - 1) |->
                       IF i < params.number_visual_observations
                       THEN Append(fields.visual_obs[i], FieldOf("visual_observations", current))
                       ELSE fields.visual_obs[i]],
     vector_obs |-> IF params.vector_observation_space_size > 0
                    THEN Append(fields.vector_obs, FieldOf("vector_observations", current))
                    ELSE fields.vector_obs,
     actions |-> Append(fields.actions, FieldOf("previous_vector_actions", next)),
     prev_action |-> Append(fields.prev_action, FieldOf("previous_vector_actions", current))]

\* Buffer: a field's entries cut into chunks of training_length, the last one
\* shorter when the entries do not fill it.
RECURSIVE Chunks(_, _)
Chunks(seq, training_length) ==
    IF seq = <<>> THEN <<>>
    ELSE IF Len(seq) <= training_length THEN <<seq>>
    ELSE <<SubSeq(seq, 1, training_length)>>
         \o Chunks(SubSeq(seq, training_length + 1, Len(seq)), training_length)

\* Buffer.append_update_buffer(0, batch_size=None, training_length=sequence_length)
AppendUpdateBuffer(update, fields, training_length) ==
    [done |-> update.done \o Chunks(fields.done, training_length),
     rewards |-> update.rewards \o Chunks(fields.rewards, training_length),
     visual_obs |-> [i \in 0..(MaxVisual - 1) |->
                       update.visual_obs[i] \o Chunks(fields.visual_obs[i], training_length)],
     vector_obs |-> update.vector_obs \o Chunks(fields.vector_obs, training_length),
     actions |-> update.actions \o Chunks(fields.actions, training_length),
     prev_action |-> update.prev_action \o Chunks(fields.prev_action, training_length)]

\* Buffer.reset_local_buffers()
ResetLocalBuffers(fields) == EmptyFields

\* The transitions held by the fields handed to a flush.
Held(fields) ==
    [k \in 1..Len(fields.actions) |-> <<fields.prev_action[k].of, fields.actions[k].of>>]

\* One iteration of "for idx, experience in enumerate(brain_infos)".
BuildStep ==
    /\ pc = "build"
    /\ idx < Len(brain_infos)
    /\ ~LoopBreak(idx, Len(brain_infos))
    /\ LET current == brain_infos[idx + 1]
           next == brain_infos[idx + 2]
           filled == AppendTransition(local_buffer, brain_params, current, next)
       IN  /\ pairs' = Append(pairs, <<current.agents, next.agents>>)
           /\ IF FlushCondition(current, next)
              THEN /\ update_buffer' = AppendUpdateBuffer(update_buffer, filled, sequence_length)
                   /\ flushes' = Append(flushes, Held(filled))
                   /\ local_buffer' = ResetLocalBuffers(filled)
              ELSE /\ local_buffer' = filled
                   /\ UNCHANGED <<update_buffer, flushes>>
    /\ idx' = idx + 1
    /\ UNCHANGED <<pc, err, brain_params, brain_infos, sequence_length>>
    /\ UNCHANGED loadVars

\* The loop is over (the list is exhausted or the break is taken): the final
\* append_update_buffer, and the return.
BuildFinish ==
    /\ pc = "build"
    /\ (idx >= Len(brain_infos) \/ LoopBreak(idx, Len(brain_infos)))
    /\ update_buffer' = AppendUpdateBuffer(update_buffer, local_buffer, sequence_length)
    /\ flushes' = Append(flushes, Held(local_buffer))
    /\ pc' = "done"
    /\ UNCHANGED <<err, brain_params, brain_infos, sequence_length, idx, local_buffer, pairs>>
    /\ UNCHANGED loadVars

\* --------------------------------------------------------- specifications
InitBuildVars ==
    /\ sequence_length = 1
    /\ idx = 0
    /\ local_buffer = EmptyFields
    /\ update_buffer = EmptyFields
    /\ pairs = <<>>
    /\ flushes = <<>>

\* demo_to_buffer(file_path, sequence_length) on any of the paths.
Init ==
    /\ pc = "resolve"
    /\ err = "none"
    /\ path \in Paths
    /\ file_paths = <<>>
    /\ fileIdx = 0
    /\ data = <<>>
    /\ pos = 0
    /\ next_pos = 0
    /\ obs_decoded = 0
    /\ stopped = "none"
    /\ brain_params = NoParams
    /\ brain_param_proto = NoFields
    /\ brain_infos = <<>>
    /\ total_expected = 0
    /\ InitBuildVars

Next ==
    \/ ResolveDir
    \/ ResolveFile
    \/ ResolveMissing
    \/ OpenFile
    \/ ScanFrame
    \/ ScanEnd
    \/ Return
    \/ StartBuild
    \/ BuildStep
    \/ BuildFinish

Spec == Init /\ [][Next]_vars

\* make_demo_buffer called directly on any list of step records.
RECURSIVE InfoLists(_)
InfoLists(n) ==
    IF n = 0 THEN {<<>>}
    ELSE {Append(l, [agents |-> n, local_done |-> d]) :
            l \in InfoLists(n - 1), d \in BOOLEAN}

\* 13 step records, the episode ending with the 6th and the 11th: the
\* transitions 4 and 9 (0-based) of 12 have next.done.
ExampleInfos == [k \in 1..13 |-> [agents |-> k, local_done |-> (k \in {6, 11})]]

BuildParams ==
    {[is_none |-> FALSE, param |-> v, vector_observation_space_size |-> v,
      number_visual_observations |-> nv, first_agent |-> 1] :
        v \in 0..1, nv \in 0..MaxVisual}

InitBuild ==
    /\ pc = "build"
    /\ err = "none"
    /\ path = [kind |-> "missing", name |-> <<>>, entries |-> <<>>]
    /\ file_paths = <<>>
    /\ fileIdx = 0
    /\ data = <<>>
    /\ pos = 0
    /\ next_pos = 0
    /\ obs_decoded = 0
    /\ stopped = "none"
    /\ brain_params \in BuildParams
    /\ brain_param_proto = NoFields
    /\ brain_infos \in UNION {InfoLists(n) : n \in 0..MaxInfos} \cup {ExampleInfos}
    /\ total_expected = 0
    /\ sequence_length \in 1..MaxSeqLen
    /\ idx = 0
    /\ local_buffer = EmptyFields
    /\ update_buffer = EmptyFields
    /\ pairs = <<>>
    /\ flushes = <<>>

NextBuild ==
    \/ BuildStep
    \/ BuildFinish

SpecBuild == InitBuild /\ [][NextBuild]_vars

\* ------------------------------------------------------------- the claims
\* The bytes of the j-th file loaded, the entry it is, and what was written
\* to it.
EntryOf(j) == CHOOSE i \in 1..Len(path.entries) : path.entries[i].name = file_paths[j]
DescOf(j) == path.entries[EntryOf(j)].desc
WrittenSteps(j) ==
    IF DescOf(j).n = 0 THEN <<>>
    ELSE [k \in 1..DescOf(j).n |-> WrittenStep(DescOf(j), EntryOf(j) - 1, k)]
FirstWritten(j, count) ==
    IF count = 0 THEN <<>> ELSE SubSeq(WrittenSteps(j), 1, count)
AllWhole == \A i \in 1..Len(path.entries) : path.entries[i].desc.damage = "ok"
NothingRead ==
    /\ fileIdx = 0
    /\ data = <<>>
    /\ obs_decoded = 0
    /\ brain_infos = <<>>
    /\ total_expected = 0

\* C1: a single whole file that declares K >= 0 steps and holds at least K
\* step frames loads as exactly its first K step records.
C1_StepCountGate ==
    (pc = "loaded" /\ path.kind = "file" /\ DescOf(1).damage = "ok"
        /\ DescOf(1).n >= DescOf(1).K)
    => brain_infos = FirstWritten(1, DescOf(1).K)

\* C2: in a load of several files the returned parameters are built from the
\* parameter record of the first file, whatever number of step records that
\* file contributes.
C2_FirstFileParams ==
    (pc = "loaded" /\ path.kind = "dir" /\ Len(file_paths) >= 2 /\ AllWhole
        /\ ~brain_params.is_none)
    => brain_params.param = WrittenParam(EntryOf(1) - 1)

\* C3: two whole files A then B, each holding exactly the number of step
\* frames it declares, load as A's records followed by B's, and the returned
\* total is K_A + K_B.
TwoValidFiles ==
    /\ path.kind = "dir"
    /\ Len(file_paths) = 2
    /\ \A j \in 1..2 : DescOf(j).damage = "ok" /\ DescOf(j).n = DescOf(j).K
C3_TwoFileConcatenation ==
    (pc = "loaded" /\ TwoValidFiles)
    => /\ brain_infos = WrittenSteps(1) \o WrittenSteps(2)
       /\ Len(brain_infos) = DescOf(1).K + DescOf(2).K
       /\ total_expected = DescOf(1).K + DescOf(2).K
       /\ err = "none"
C3_Witness ==
    /\ pc = "loaded"
    /\ TwoValidFiles
    /\ DescOf(1).K = 1
    /\ DescOf(2).K = 2
    /\ Len(brain_infos) = 3

\* C4: a directory none of whose entry names ends in the demonstration
\* extension makes the load fail with the no-demo-files error.
C4_NoDemoFilesError ==
    (path.kind = "dir" /\ pc # "resolve"
        /\ \A i \in 1..Len(path.entries) : ~EndsWith(path.entries[i].name, DemoExt))
    => (pc = "error" /\ err = "ValueError: no .demo files in the directory")

\* C5: a frame whose declared length exceeds the bytes that remain after its
\* length prefix makes the scan fail, and a scan that ends by the loop
\* condition ends with the cursor exactly at the buffer length.
FrameTruncated ==
    /\ pc = "scan"
    /\ pos < Len(data)
    /\ DecodeVarint32(data, pos).ok
    /\ DecodeVarint32(data, pos).pos + DecodeVarint32(data, pos).value > Len(data)
C5_TruncationDetected ==
    [][/\ FrameTruncated => pc' = "error"
       /\ stopped' = "eof" => pos' = Len(data')]_vars

\* C6: a load of whole files never returns fewer step records than the files
\* declare: a stream that ends early is an error.
C6_ShortStreamFails ==
    (pc = "loaded" /\ AllWhole) => Len(brain_infos) >= total_expected

\* C7: a load never returns after scanning a file of zero bytes.
C7_EmptyInputFails ==
    ~(pc = "loaded" /\ \E j \in 1..Len(file_paths) : Read(file_paths[j]) = <<>>)

\* C8: a path that is no directory is scanned only if it is a file whose
\* suffix is the demonstration extension; a file with another suffix fails as
\* a wrong extension and a path that does not exist as not found, both before
\* anything is read or decoded.
C8_SingleFileGate ==
    path.kind # "dir" =>
        /\ (pc \notin {"resolve", "error"} \/ fileIdx > 0)
            => (path.kind = "file" /\ PathSuffix(path.name) = DemoExt)
        /\ (path.kind = "file" /\ PathSuffix(path.name) # DemoExt /\ pc # "resolve")
            => (pc = "error" /\ err = "ValueError: not a .demo file" /\ NothingRead)
        /\ (path.kind = "missing" /\ pc # "resolve")
            => (pc = "error" /\ err = "FileNotFoundError" /\ NothingRead)
C8_Witness ==
    /\ path.kind = "file"
    /\ PathSuffix(path.name) # DemoExt
    /\ pc = "error"
    /\ err = "ValueError: not a .demo file"
    /\ fileIdx = 0

\* C9: N >= 1 step records give exactly the N-1 transitions (k, k+1) in
\* order, the last record never being the current side; N = 0 gives none and
\* no error.
ExpectedPairs(infos) ==
    IF Len(infos) < 2 THEN <<>>
    ELSE [k \in 1..(Len(infos) - 1) |-> <<infos[k].agents, infos[k + 1].agents>>]
C9_TransitionPairs ==
    pc = "done" =>
        /\ err = "none"
        /\ pairs = ExpectedPairs(brain_infos)
        /\ Len(brain_infos) >= 1 => Len(pairs) = Len(brain_infos) - 1
        /\ Len(brain_infos) = 0 => Len(pairs) = 0
        /\ \A k \in 1..Len(pairs) : pairs[k][1] # brain_infos[Len(brain_infos)].agents
C9_Witness ==
    /\ pc = "done"
    /\ Len(brain_infos) = 3
    /\ pairs = <<<<1, 2>>, <<2, 3>>>>

\* C10: a flush and a reset happen exactly after each transition whose next
\* record is done, plus one flush at the end; the flushes concatenated are the
\* transitions in order, each in exactly one flush.
RECURSIVE Concat(_)
Concat(seqs) == IF seqs = <<>> THEN <<>> ELSE Head(seqs) \o Concat(Tail(seqs))
NextDone(pair) ==
    \E k \in 1..Len(brain_infos) :
        brain_infos[k].agents = pair[2] /\ brain_infos[k].local_done
DoneCount == Cardinality({k \in 1..Len(pairs) : NextDone(pairs[k])})
EndsEpisode(flush) ==
    /\ flush # <<>>
    /\ \A k \in 1..Len(flush) : NextDone(flush[k]) <=> k = Len(flush)
C10_EpisodeFlushes ==
    /\ pc = "build" =>
        /\ Concat(flushes) \o Held(local_buffer) = pairs
        /\ Len(flushes) = DoneCount
        /\ \A j \in 1..Len(flushes) : EndsEpisode(flushes[j])
        /\ \A k \in 1..Len(Held(local_buffer)) : ~NextDone(Held(local_buffer)[k])
    /\ pc = "done" =>
        /\ Concat(flushes) = ExpectedPairs(brain_infos)
        /\ Len(flushes) = DoneCount + 1
        /\ \A j \in 1..(Len(flushes) - 1) : EndsEpisode(flushes[j])
        /\ \A k \in 1..Len(flushes[Len(flushes)]) : ~NextDone(flushes[Len(flushes)][k])
C10_Witness ==
    /\ pc = "done"
    /\ brain_infos = ExampleInfos
    /\ [j \in 1..Len(flushes) |-> Len(flushes[j])] = <<5, 5, 2>>

\* C11: every transition appends one entry to each field, done, rewards and
\* actions read from next, prev_action, vector_obs and each visual_obs from
\* current; vector_obs only when the vector observation size is > 0, and
\* exactly number_visual_observations visual fields; so all populated fields
\* hold the same number of entries, accumulated and flushed.
Accumulated == Len(local_buffer.done)
PairAt(k) == pairs[Len(pairs) - Accumulated + k]
Flushed(chunks) == Len(Concat(chunks))
C11_FieldSources ==
    pc \in {"build", "done"} =>
        /\ Accumulated <= Len(pairs)
        /\ Len(local_buffer.rewards) = Accumulated
        /\ Len(local_buffer.actions) = Accumulated
        /\ Len(local_buffer.prev_action) = Accumulated
        /\ Len(local_buffer.vector_obs) =
              IF brain_params.vector_observation_space_size > 0 THEN Accumulated ELSE 0
        /\ \A i \in 0..(MaxVisual - 1) :
              Len(local_buffer.visual_obs[i]) =
                 IF i < brain_params.number_visual_observations THEN Accumulated ELSE 0
        /\ \A k \in 1..Accumulated :
              /\ local_buffer.done[k] = NextDone(PairAt(k))
              /\ local_buffer.rewards[k] = [what |-> "rewards", of |-> PairAt(k)[2]]
              /\ local_buffer.actions[k] =
                    [what |-> "previous_vector_actions", of |-> PairAt(k)[2]]
              /\ local_buffer.prev_action[k] =
                    [what |-> "previous_vector_actions", of |-> PairAt(k)[1]]
              /\ brain_params.vector_observation_space_size > 0 =>
                    local_buffer.vector_obs[k] =
                       [what |-> "vector_observations", of |-> PairAt(k)[1]]
              /\ \A i \in 0..(brain_params.number_visual_observations - 1) :
                    local_buffer.visual_obs[i][k] =
                       [what |-> "visual_observations", of |-> PairAt(k)[1]]
        /\ Flushed(update_buffer.rewards) = Flushed(update_buffer.done)
        /\ Flushed(update_buffer.actions) = Flushed(update_buffer.done)
        /\ Flushed(update_buffer.prev_action) = Flushed(update_buffer.done)
        /\ Flushed(update_buffer.vector_obs) =
              IF brain_params.vector_observation_space_size > 0
              THEN Flushed(update_buffer.done) ELSE 0
        /\ \A i \in 0..(MaxVisual - 1) :
              Flushed(update_buffer.visual_obs[i]) =
                 IF i < brain_params.number_visual_observations
                 THEN Flushed(update_buffer.done) ELSE 0
C11_Witness ==
    /\ pc = "build"
    /\ Accumulated = 2
    /\ Flushed(update_buffer.done) = 2
    /\ brain_params.vector_observation_space_size = 0
    /\ brain_params.number_visual_observations = 1
    /\ local_buffer.vector_obs = <<>>
    /\ Len(local_buffer.visual_obs[0]) = 2

\* C12: every chunk holds at most sequence_length transitions, a transition
\* with done is always the last of its chunk, and a chunk shorter than
\* sequence_length is the last chunk of its flush.
ChunkLengths(chunks) == [j \in 1..Len(chunks) |-> Len(chunks[j])]
ChunkBounded(c) ==
    /\ Len(c) >= 1
    /\ Len(c) <= sequence_length
    /\ \A k \in 1..Len(c) : c[k] => k = Len(c)
ShortChunkLast(j) ==
    Len(update_buffer.done[j]) < sequence_length
    => \/ update_buffer.done[j][Len(update_buffer.done[j])]
       \/ (pc = "done" /\ j = Len(update_buffer.done))
C12_ChunkBounds ==
    pc \in {"build", "done"} =>
        /\ \A j \in 1..Len(update_buffer.done) :
              ChunkBounded(update_buffer.done[j]) /\ ShortChunkLast(j)
        /\ ChunkLengths(update_buffer.rewards) = ChunkLengths(update_buffer.done)
        /\ ChunkLengths(update_buffer.actions) = ChunkLengths(update_buffer.done)
        /\ ChunkLengths(update_buffer.prev_action) = ChunkLengths(update_buffer.done)
C12_Witness ==
    /\ pc = "done"
    /\ brain_infos = ExampleInfos
    /\ sequence_length = 3
    /\ ChunkLengths(update_buffer.done) = <<3, 2, 3, 2, 2>>

\* The payloads written to the j-th file loaded, in order: the meta record,
\* the parameter record, the step records.
WrittenFrames(j) ==
    <<Tail(MetaFrame(DescOf(j))), Tail(ParamFrame(EntryOf(j) - 1))>>
    \o [k \in 1..DescOf(j).n |->
          StepPayload(DescOf(j), WrittenStep(DescOf(j), EntryOf(j) - 1, k))]
\* The frame the next loop iteration takes: data[pos : pos + next_pos] after
\* the length prefix at the cursor.
FrameAtCursor ==
    Slice(data, DecodeVarint32(data, pos).pos,
          DecodeVarint32(data, pos).pos + DecodeVarint32(data, pos).value)
\* Every iteration takes the next written frame, and a scan that ends by the
\* loop condition has taken them all.
ReadsBack(shapes) ==
    /\ (pc = "scan" /\ pos < Len(data) /\ DescOf(fileIdx).damage \in shapes)
        => /\ DecodeVarint32(data, pos).ok
           /\ obs_decoded < Len(WrittenFrames(fileIdx))
           /\ FrameAtCursor = WrittenFrames(fileIdx)[obs_decoded + 1]
    /\ (stopped = "eof" /\ DescOf(fileIdx).damage \in shapes)
        => obs_decoded = Len(WrittenFrames(fileIdx))

\* C13 (as claimed): byte strings written each with a varint length prefix
\* and concatenated are read back by the scan frame for frame, same count,
\* same bytes, same order.
C13_FrameRoundTrip == ReadsBack({"packed"})

\* C13 (amended): when the first frame is followed by padding up to offset
\* 33, the frames written after the padding are read back frame for frame in
\* order, and all of them unless the step-count gate ends the scan first.
C13_PaddedRoundTrip == ReadsBack({"ok", "wide"})
C13_Witness ==
    /\ stopped = "eof"
    /\ DescOf(fileIdx).damage = "wide"
    /\ DescOf(fileIdx).n = 2
    /\ obs_decoded = 4
    /\ pos = Len(data)

\* C14: the final flush is always made, and when nothing is accumulated (at
\* most one step record, or a last transition with done) it adds no chunk and
\* raises no error: the output is what the earlier flushes produced.
NothingLeft ==
    \/ Len(brain_infos) <= 1
    \/ brain_infos[Len(brain_infos)].local_done
C14_FinalFlushNoOp ==
    [][(pc = "build" /\ pc' = "done") =>
          /\ Len(flushes') = Len(flushes) + 1
          /\ err' = "none"
          /\ NothingLeft =>
                /\ flushes'[Len(flushes')] = <<>>
                /\ update_buffer' = update_buffer]_vars
C14_Witness ==
    /\ pc = "done"
    /\ Len(brain_infos) = 3
    /\ brain_infos[3].local_done
    /\ Len(flushes) = 2
    /\ flushes[2] = <<>>
    /\ Flushed(update_buffer.done) = 2

\* A loop iteration that raises nothing, and the record it decodes.
ScanStep == pc = "scan" /\ pos < Len(data) /\ pc' # "error"
DecodedAtCursor == ParseFromString(FrameAtCursor).fields
PastFrame == DecodeVarint32(data, pos).pos + DecodeVarint32(data, pos).value
\* The positional state machine of a step of the load; gateAdvances says
\* whether the step frame that reaches the step-count gate advances the cursor
\* past its body as the other frames do.
Positional(gateAdvances) ==
    /\ (pc = "open" /\ pc' = "scan") => (obs_decoded' = 0 /\ pos' = 0)
    /\ (ScanStep /\ obs_decoded = 0) =>
          /\ pos' = INITIAL_POS
          /\ total_expected' = total_expected + DecodedAtCursor[TagNumberSteps]
          /\ UNCHANGED <<brain_infos, brain_param_proto>>
    /\ (ScanStep /\ obs_decoded = 1) =>
          /\ pos' = PastFrame
          /\ brain_param_proto' = DecodedAtCursor
          /\ UNCHANGED <<brain_infos, total_expected>>
    /\ (ScanStep /\ obs_decoded >= 2) =>
          /\ brain_infos' = Append(brain_infos,
                                   [agents |-> DecodedAtCursor[TagId],
                                    local_done |-> DecodedAtCursor[TagDone] # 0])
          /\ UNCHANGED <<brain_param_proto, total_expected>>
          /\ pos' = IF ~gateAdvances /\ Len(brain_infos') = total_expected
                    THEN DecodeVarint32(data, pos).pos
                    ELSE PastFrame

\* C15 (as claimed): the frame index restarts at 0 for every file; frame 0 is
\* the meta record and leaves the cursor at offset 33; frame 1 is the
\* parameter record and every later frame a step record, each advancing the
\* cursor by its varint length plus its declared length; only frames of index
\* >= 2 are appended to the step sequence.
C15_PositionalScan == [][Positional(TRUE)]_vars

\* C15 (amended): the same, except that the step frame on which the
\* step-count gate ends the scan leaves the cursor just after its length
\* prefix.
C15_PositionalScanGate == [][Positional(FALSE)]_vars
C15_Witness ==
    /\ stopped = "gate"
    /\ DescOf(fileIdx).damage = "longmeta"
    /\ obs_decoded = 3
    /\ Len(brain_infos) = 2
    /\ pos = INITIAL_POS + 9
    /\ pos < Len(data)

\* The number of step records of the result that the j-th file loaded
\* contributed (the ids written to a file are 10 * its number + 1, 2, ...).
Contribution(j) ==
    Cardinality({k \in 1..Len(brain_infos) :
                    brain_infos[k].agents \div 10 = EntryOf(j) - 1})

\* C16: in a load of several files each file contributes at most the step
\* count it declares, whatever the other files delivered, and the records
\* accumulated never exceed the running total of declared counts. Stated for
\* directories of whole files that each declare at least one step.
C16_PerFileGate ==
    (/\ path.kind = "dir"
     /\ pc # "resolve"
     /\ \A j \in 1..Len(file_paths) : DescOf(j).damage = "ok" /\ DescOf(j).K >= 1)
    => /\ \A j \in 1..fileIdx : Contribution(j) <= DescOf(j).K
       /\ Len(brain_infos) <= total_expected

\* The file (its number in the directory) a step record was written to.
FileOfId(id) == id \div 10

C18_ScanTerminates ==
    [][/\ (pc = "scan" /\ pos < Len(data)) => (pc' = "error" \/ pos' > pos)
       /\ pc' = "scan" =>
             /\ obs_decoded' <= pos'
             /\ pos' < Len(data') => obs_decoded' < Len(data')]_vars
C18_Witness ==
    /\ stopped = "eof"
    /\ DescOf(fileIdx).damage = "bare"
    /\ DescOf(fileIdx).n = 2
    /\ obs_decoded = 4
    /\ next_pos = 0
    /\ pos = INITIAL_POS + 5
    /\ pos = Len(data)

====
